---- MODULE Spec2Model ----
(***************************************************************************)
(* Model of the Trace oscillator card: the per-sample handler              *)
(* WT::ProcessSample (src/src/main.cpp) and the oscillator shapes          *)
(* (src/include/oscillator.h).                                             *)
(*                                                                         *)
(* A uint32_t value is the pair <<hi, lo>> of its two 16-bit halves, so    *)
(* that every 32-bit wrap and every 64-bit intermediate product of the     *)
(* code is computed exactly with integers that stay below 2^31.            *)
(* An int32_t value that is small in the code (samples, knob readings,     *)
(* modulation values) is a plain integer.                                  *)
(***************************************************************************)
EXTENDS Integers, Sequences, FiniteSets

\* ------------------------------------------------------------------------
\* 32-bit unsigned arithmetic on <<hi, lo>> pairs
\* ------------------------------------------------------------------------

Pow2(k) == 2 ^ k

\* the element of a one-element set.  The({F(v) : v \in {E}}) is F(E) with E
\* evaluated once, however often F uses it.
The(S) == CHOOSE v \in S : TRUE

\* the uint32_t with the given 16-bit halves
U32(hi, lo) == <<hi, lo>>

\* conversion of an int32_t to uint32_t (two's complement)
FromInt(n) == <<(n \div 65536) % 65536, n % 65536>>

\* x + y on uint32_t
Add32(x, y) == LET lo == x[2] + y[2]
                   hi == x[1] + y[1] + (lo \div 65536)
               IN  <<hi % 65536, lo % 65536>>

\* x - y on uint32_t
Sub32(x, y) == LET lo == x[2] - y[2]
                   hi == x[1] - y[1] + (lo \div 65536)
               IN  <<hi % 65536, lo % 65536>>

\* x << k on uint32_t, 0 <= k < 32
Shl32(x, k) == IF k >= 16
               THEN <<(x[2] * Pow2(k - 16)) % 65536, 0>>
               ELSE <<((x[1] * Pow2(k)) + ((x[2] * Pow2(k)) \div 65536)) % 65536,
                      (x[2] * Pow2(k)) % 65536>>

\* x >> k on uint32_t, 0 <= k < 32
Shr32(x, k) == IF k >= 16
               THEN <<0, x[1] \div Pow2(k - 16)>>
               ELSE <<x[1] \div Pow2(k),
                      ((x[1] % Pow2(k)) * Pow2(16 - k)) + (x[2] \div Pow2(k))>>

\* x <= y on uint32_t
Leq32(x, y) == x[1] < y[1] \/ (x[1] = y[1] /\ x[2] <= y[2])

\* the product of two 16-bit values as <<hi, lo>>
Mul16(a, b) == LET p1 == a * (b \div 256)
                   p0 == a * (b % 256)
                   t  == (p1 % 256) * 256 + p0
               IN  <<(p1 \div 256) + (t \div 65536), t % 65536>>

\* (uint64_t)x * y as four 16-bit limbs <<w3, w2, w1, w0>>
Mul64(x, y) ==
   The({ LET s1 == p00[1] + p01[2] + p10[2]
             s2 == p01[1] + p10[1] + p11[2] + (s1 \div 65536)
             s3 == p11[1] + (s2 \div 65536)
         IN  <<s3, s2 % 65536, s1 % 65536, p00[2]>> :
         p00 \in {Mul16(x[2], y[2])}, p01 \in {Mul16(x[2], y[1])},
         p10 \in {Mul16(x[1], y[2])}, p11 \in {Mul16(x[1], y[1])} })

\* (uint32_t)(((uint64_t)x * y) >> 32)
MulHi32(x, y) == The({<<w[1], w[2]>> : w \in {Mul64(x, y)}})

\* (uint32_t)(((uint64_t)x * y) >> 30)
MulShr30(x, y) == The({<<(w[1] % 16384) * 4 + (w[2] \div 16384),
                         (w[2] % 16384) * 4 + (w[3] \div 16384)>> :
                       w \in {Mul64(x, y)}})

\* ------------------------------------------------------------------------
\* Tables (lookup_tables.h and mesh_data.h are not part of the sources at
\* hand: the tables below have the shape the design document gives them,
\* signed 16-bit entries at full scale and Q12 path coordinates)
\* ------------------------------------------------------------------------

\* the first quarter of one sine period, 32767 * sin(2*pi*i/512), i = 0..128
SINE_QUARTER ==
   <<
      0, 402, 804, 1206, 1608, 2009, 2410, 2811, 3212, 3612,
      4011, 4410, 4808, 5205, 5602, 5998, 6393, 6786, 7179, 7571,
      7962, 8351, 8739, 9126, 9512, 9896, 10278, 10659, 11039, 11417,
      11793, 12167, 12539, 12910, 13279, 13645, 14010, 14372, 14732, 15090,
      15446, 15800, 16151, 16499, 16846, 17189, 17530, 17869, 18204, 18537,
      18868, 19195, 19519, 19841, 20159, 20475, 20787, 21096, 21403, 21705,
      22005, 22301, 22594, 22884, 23170, 23452, 23731, 24007, 24279, 24547,
      24811, 25072, 25329, 25582, 25832, 26077, 26319, 26556, 26790, 27019,
      27245, 27466, 27683, 27896, 28105, 28310, 28510, 28706, 28898, 29085,
      29268, 29447, 29621, 29791, 29956, 30117, 30273, 30424, 30571, 30714,
      30852, 30985, 31113, 31237, 31356, 31470, 31580, 31685, 31785, 31880,
      31971, 32057, 32137, 32213, 32285, 32351, 32412, 32469, 32521, 32567,
      32609, 32646, 32678, 32705, 32728, 32745, 32757, 32765, 32767
   >>

\* the 512-entry sine table
SINE_TABLE ==
   [i \in 0..511 |->
      LET q == i % 256
          v == IF q <= 128 THEN SINE_QUARTER[q + 1] ELSE SINE_QUARTER[257 - q]
      IN  IF i < 256 THEN v ELSE -v]

\* the stereo sample tables of the wavetable shapes, 1024 entries a channel
YIN_TABLE ==
   [left  |-> [i \in 0..1023 |-> i * 64 - 32768],
    right |-> [i \in 0..1023 |-> IF i < 512 THEN 32767 - i * 128
                                           ELSE (i - 512) * 128 - 32768]]

YANG_TABLE ==
   [left  |-> [i \in 0..1023 |-> 32767 - i * 64],
    right |-> [i \in 0..1023 |-> IF i < 512 THEN 32767 ELSE -32768]]

RIBBON_TABLE_A ==
   [left  |-> [i \in 0..1023 |-> IF i < 256 THEN -32768 ELSE 32767],
    right |-> [i \in 0..1023 |-> (i % 512) * 128 - 32768]]

RIBBON_TABLE_B ==
   [left  |-> [i \in 0..1023 |-> 32767 - (i % 256) * 256],
    right |-> [i \in 0..1023 |-> i * 32]]

OUTLINE_TABLE_A ==
   [left  |-> [i \in 0..1023 |-> IF i < 512 THEN i * 64 ELSE (1023 - i) * 64],
    right |-> [i \in 0..1023 |-> -(i * 32)]]

OUTLINE_TABLE_B ==
   [left  |-> [i \in 0..1023 |-> IF i % 2 = 0 THEN 32767 ELSE -32768],
    right |-> [i \in 0..1023 |-> 0]]

Point3D(x, y, z) == [x |-> x, y |-> y, z |-> z]

\* a table given as a sequence, indexed from 0 as in the code
ZeroBased(s) == [i \in 0..(Len(s) - 1) |-> s[i + 1]]

\* the closed paths of the mesh shapes
CUBE_PATH ==
   ZeroBased(<< Point3D(-2048, -2048, -2048), Point3D(2047, -2048, -2048),
                Point3D(2047, 2047, -2048),   Point3D(-2048, 2047, -2048),
                Point3D(-2048, 2047, 2047),   Point3D(2047, 2047, 2047),
                Point3D(2047, -2048, 2047),   Point3D(-2048, -2048, 2047),
                Point3D(-2048, -2048, -2048) >>)

CUBE_PATH_COUNT == Cardinality(DOMAIN CUBE_PATH)

CONE_PATH ==
   ZeroBased(<< Point3D(0, 2047, 0),       Point3D(2047, -2048, 0),
                Point3D(0, -2048, 2047),   Point3D(0, 2047, 0),
                Point3D(-2048, -2048, 0),  Point3D(0, -2048, -2048),
                Point3D(0, 2047, 0) >>)

CONE_PATH_COUNT == Cardinality(DOMAIN CONE_PATH)

ICOSPHERE_PATH ==
   ZeroBased(<< Point3D(0, 2047, 0),          Point3D(1830, 915, 0),
                Point3D(565, 915, 1741),      Point3D(-1481, 915, 1076),
                Point3D(-1481, 915, -1076),   Point3D(565, 915, -1741),
                Point3D(1481, -915, -1076),   Point3D(1481, -915, 1076),
                Point3D(-565, -915, 1741),    Point3D(-1830, -915, 0),
                Point3D(-565, -915, -1741),   Point3D(0, -2048, 0),
                Point3D(0, 2047, 0) >>)

ICOSPHERE_PATH_COUNT == Cardinality(DOMAIN ICOSPHERE_PATH)

\* the phase increment of a frequency control value, exponential in it
FREQ_INC_LUT_EXP(i) == FromInt((256 + (i % 256)) * Pow2((i \div 256) + 6))

\* the entry a read of table[i] returns.  The operator is total so that a
\* read outside the table shows in the recorded reads instead of stopping the
\* evaluation; the value it yields there stands for no value of the code.
TableRead(table, i) == IF i \in DOMAIN table THEN table[i] ELSE 0

\* ------------------------------------------------------------------------
\* Fixed-point primitives (class Oscillator)
\* ------------------------------------------------------------------------

\* index of the first sine table entry read for phase ph : ph >> 23
sine_index(ph) == ph[1] \div 128

\* sine_index_next without the mask
sine_index_next_nomask(ph) == sine_index(ph) + 1

\* index of the second entry : (index + 1) & 0x1FF
sine_index_next(ph) == (sine_index(ph) + 1) % 512

\* int32_t sine(uint32_t ph)
sine(ph) == LET r  == (ph[1] % 128) * 512 + (ph[2] \div 128)
                s1 == TableRead(SINE_TABLE, sine_index(ph))
                s2 == TableRead(SINE_TABLE, sine_index_next(ph))
            IN  (s2 * r + s1 * (65536 - r)) \div 1048576

\* the table reads of sine(ph), as <<table, index>>
sine_reads(ph) == {<<"SINE", sine_index(ph)>>, <<"SINE", sine_index_next(ph)>>}

\* the grow factor of a modulation value: clamped to [0, 4096], then << 20
\* in 32 bits
grow_factor(mod_grow) ==
   Shl32(FromInt(IF mod_grow < 0 THEN 0
                 ELSE IF mod_grow > 4096 THEN 4096 ELSE mod_grow), 20)

\* ------------------------------------------------------------------------
\* Shapes.  A compute operator yields [out, ph_rot, reads]: the two samples
\* written to out[0] and out[1], the shape's rotation phase after the call,
\* and the table entries the call read.
\* ------------------------------------------------------------------------

QUARTER == U32(16384, 0)        \* 0x40000000

\* YinYang::compute, the arcs: the pair (out[0], out[1]) before the rotation
\* and the phases handed to sine, for the working phase ph_all
YinYang_arcs(ph_all) ==
   LET sec == ph_all[1] \div 16384
   IN  IF sec = 3
       THEN The({ [o0 |-> sine(a0) \div 4,
                   o1 |-> -(sine(a1) \div 4) + 1024,
                   args |-> {a0, a1}] :
                  a0 \in {Shl32(Shl32(ph_all, 2), 1)},
                  a1 \in {Add32(Shl32(Shl32(ph_all, 2), 1), QUARTER)} })
       ELSE The({ LET sec_body == ph_body[1] \div 16384
                      b0 == Shl32(ph_body, 1)
                      b1 == Add32(Shl32(ph_body, 1), QUARTER)
                  IN  IF sec_body = 0
                      THEN [o0 |-> sine(b0) \div 2,
                            o1 |-> -(sine(b1) \div 2) + 1024,
                            args |-> {b0, b1}]
                      ELSE IF sec_body = 3
                      THEN [o0 |-> sine(b0) \div 2,
                            o1 |-> (sine(b1) \div 2) - 1024,
                            args |-> {b0, b1}]
                      ELSE [o0 |-> -sine(Sub32(ph_body, QUARTER)),
                            o1 |-> sine(ph_body),
                            args |-> {Sub32(ph_body, QUARTER), ph_body}] :
                  ph_body \in {MulShr30(ph_all, U32(21845, 21846))} })

\* the rotation phase of YinYang after a call
YinYang_rot(ph_rot, mod_rot) == Add32(ph_rot, FromInt((mod_rot - 2048) * 2048))

\* YinYang::compute(ph, mod_grow, mod_rot, out) on an object whose rotation
\* phase is ph_rot
YinYang_compute(ph, mod_grow, mod_rot, ph_rot) ==
   The({ LET sign == IF ph[1] >= 32768 THEN -1 ELSE 1
             x    == sign * arcs.o0
             y    == sign * (arcs.o1 + 8)
             s    == sine(rot)
             c    == sine(Add32(rot, QUARTER))
         IN  [out    |-> <<(x * s + y * c) \div 2048, (x * c - y * s) \div 2048>>,
              ph_rot |-> rot,
              reads  |-> UNION {sine_reads(a) :
                                a \in arcs.args \cup {rot, Add32(rot, QUARTER)}}] :
         rot  \in {YinYang_rot(ph_rot, mod_rot)},
         arcs \in {YinYang_arcs(MulHi32(Shl32(ph, 1), grow_factor(mod_grow)))} })

\* the rotation phase of a mesh shape after a call
Poly_rot(ph_rot, mod_rot) == Add32(ph_rot, FromInt((mod_rot - 2048) * 1024))

\* the path segment of the scaled phase : ((uint64_t)ph * (path_count - 1)) >> 32
Poly_segment(ph, path_count) ==
   LET w == Mul64(ph, FromInt(path_count - 1)) IN w[1] * 65536 + w[2]

\* the index of the segment's end point : (segment + 1) % path_count
Poly_next(segment, path_count) == (segment + 1) % path_count

\* the body shared by PolyCube::compute, PolyCone::compute and
\* PolyICO::compute, for the path a shape is bound to
Poly_compute(path, path_count, ph, mod_grow, mod_rot, ph_rot) ==
   The({ LET segment == Poly_segment(phs, path_count)
             frac    == Mul64(phs, FromInt(path_count - 1))[3] \div 64
             next    == Poly_next(segment, path_count)
             none    == Point3D(0, 0, 0)
             p1      == IF segment \in DOMAIN path THEN path[segment] ELSE none
             p2      == IF next \in DOMAIN path THEN path[next] ELSE none
             x       == p1.x + (((p2.x - p1.x) * frac) \div 1024)
             y       == p1.y + (((p2.y - p1.y) * frac) \div 1024)
             z       == p1.z + (((p2.z - p1.z) * frac) \div 1024)
             rx      == (x * c - z * s) \div 2048
             ry      == y
             rz      == (x * s + z * c) \div 2048
             u       == rx
             v       == (rz \div 2) + ((ry * 3547) \div 4096)
         IN  [out    |-> <<u \div 2, v \div 2>>,
              ph_rot |-> rot,
              reads  |-> {<<"PATH", segment>>, <<"PATH", next>>}
                         \cup sine_reads(rot) \cup sine_reads(Sub32(rot, QUARTER))] :
         phs \in {MulHi32(ph, grow_factor(mod_grow))},
         rot \in {Poly_rot(ph_rot, mod_rot)},
         s   \in {sine(Poly_rot(ph_rot, mod_rot))},
         c   \in {sine(Sub32(Poly_rot(ph_rot, mod_rot), QUARTER))} })

PolyCube_compute(ph, mod_grow, mod_rot, ph_rot) ==
   Poly_compute(CUBE_PATH, CUBE_PATH_COUNT, ph, mod_grow, mod_rot, ph_rot)

PolyCone_compute(ph, mod_grow, mod_rot, ph_rot) ==
   Poly_compute(CONE_PATH, CONE_PATH_COUNT, ph, mod_grow, mod_rot, ph_rot)

PolyICO_compute(ph, mod_grow, mod_rot, ph_rot) ==
   Poly_compute(ICOSPHERE_PATH, ICOSPHERE_PATH_COUNT, ph, mod_grow, mod_rot, ph_rot)

\* index of the first wavetable entry read : ph >> 22
lookup1024_index(ph) == ph[1] \div 64

\* index of the second entry : (index + 1) & 0x3FF
lookup1024_index_next(ph) == (lookup1024_index(ph) + 1) % 1024

\* YinYangCalligraphy::lookup1024(ph, table)
lookup1024(ph, table) ==
   LET r  == (ph[1] % 64) * 1024 + (ph[2] \div 64)
       s1 == TableRead(table, lookup1024_index(ph))
       s2 == TableRead(table, lookup1024_index_next(ph))
   IN  (s2 * r + s1 * (65536 - r)) \div 1048576

\* the blend weight of the second table: the morph value clamped to
\* [0, 4096], << 20 in 32 bits, >> 16
morph_weight(mod_morph) ==
   Shr32(Shl32(FromInt(IF mod_morph < 0 THEN 0
                       ELSE IF mod_morph > 4096 THEN 4096 ELSE mod_morph), 20),
         16)[2]

\* the cross-fade of a wavetable shape between the stereo tables A and B
Morph_compute(A, B, ph, mod_grow, mod_morph) ==
   The({ LET w      == morph_weight(mod_morph)
             yin_l  == lookup1024(phs, A.left)
             yin_r  == lookup1024(phs, A.right)
             yang_l == lookup1024(phs, B.left)
             yang_r == lookup1024(phs, B.right)
         IN  [out   |-> <<((yin_l * (65536 - w) + yang_l * w) * 6) \div 524288,
                          ((-(yin_r * (65536 - w) + yang_r * w)) * 6) \div 524288>>,
              reads |-> {<<"WT", lookup1024_index(phs)>>,
                         <<"WT", lookup1024_index_next(phs)>>}] :
         phs \in {MulHi32(ph, grow_factor(mod_grow))} })

\* YinYangCalligraphy::compute(ph, mod_grow, mod_morph, out)
YinYangCalligraphy_compute(ph, mod_grow, mod_morph) ==
   Morph_compute(YIN_TABLE, YANG_TABLE, ph, mod_grow, mod_morph)

\* RibbonWC::compute and OutlineWC::compute: the same cross-fade over the
\* shape's own tables
RibbonWC_compute(ph, mod_grow, mod_morph) ==
   Morph_compute(RIBBON_TABLE_A, RIBBON_TABLE_B, ph, mod_grow, mod_morph)

OutlineWC_compute(ph, mod_grow, mod_morph) ==
   Morph_compute(OUTLINE_TABLE_A, OUTLINE_TABLE_B, ph, mod_grow, mod_morph)

\* ------------------------------------------------------------------------
\* State
\* ------------------------------------------------------------------------

VARIABLES
   phase,              \* WT::phase
   filter_L, filter_R, \* WT::filter_L, WT::filter_R
   currentOsc,         \* WT::currentOsc, by the name of the member it points to
   currentBank,        \* WT::currentBank
   currentOscIndex,    \* WT::currentOscIndex
   mod1_off, mod2_off, \* WT::mod1_off, WT::mod2_off
   mod1_att, mod2_att, \* WT::mod1_att, WT::mod2_att
   mod1guard, mod2guard,
   knobx_last, knoby_last,
   ph_rot,             \* the ph_rot member of each shape that has one
   switchVal,          \* the switch position at the last sample
   pulse1, pulse2,     \* the levels of the two pulse inputs at the last sample
   out,                \* out[0], out[1] of the last compute call
   reads,              \* the table entries the last compute call read
   call,               \* the last compute call: shape and arguments
   last,               \* what the last tick did, and the selection before it
   ref,                \* the last switch change: readings and stored values
   fh,                 \* the filter states before the last filter update
   ticks               \* ticks so far

vars == <<phase, filter_L, filter_R, currentOsc, currentBank, currentOscIndex,
          mod1_off, mod2_off, mod1_att, mod2_att, mod1guard, mod2guard,
          knobx_last, knoby_last, ph_rot, switchVal, pulse1, pulse2,
          out, reads, call, last, ref, fh, ticks>>

\* enum BANK
BANK_FUNC == 0
BANK_MESH == 1
BANK_WT   == 2

\* bankFunc, bankMesh, bankWT and banks, indexed from 0
banks == ZeroBased(<< ZeroBased(<<"yinyang">>),
                      ZeroBased(<<"polycube", "polycone", "polyico">>),
                      ZeroBased(<<"yinyang_c", "ribbon", "outline">>) >>)

bankSizes == ZeroBased(<<1, 3, 3>>)

\* the shapes that own a rotation phase
Rotating == {"yinyang", "polycube", "polycone", "polyico"}

\* the positions of the switch (enum Switch of ComputerCard)
SwitchPositions == {"Down", "Middle", "Up"}

\* ------------------------------------------------------------------------
\* WT
\* ------------------------------------------------------------------------

\* a selection: bank, index and the oscillator pointed to
Sel(b, i, o) == [bank |-> b, idx |-> i, osc |-> o]

\* CycleOscillator stepping through two banks only
CycleOscillator_mod2(s) ==
   LET i == (s.idx + 1) % 256
       b == IF i >= bankSizes[s.bank] THEN (s.bank + 1) % 2 ELSE s.bank
       j == IF i >= bankSizes[s.bank] THEN 0 ELSE i
   IN  Sel(b, j, banks[b][j])

\* WT::CycleOscillator on the selection s
CycleOscillator(s) ==
   LET i == (s.idx + 1) % 256
       b == IF i >= bankSizes[s.bank] THEN (s.bank + 1) % 3 ELSE s.bank
       j == IF i >= bankSizes[s.bank] THEN 0 ELSE i
   IN  Sel(b, j, banks[b][j])

\* BankAdvance leaving the index alone where the next bank has such an entry
BankAdvance_keep(s) ==
   LET b == (s.bank + 1) % 3
       i == IF s.idx < bankSizes[b] THEN s.idx ELSE 0
   IN  Sel(b, i, banks[b][i])

\* the body of if (PulseIn1RisingEdge()) in ProcessSample
BankAdvance(s) ==
   LET b == (s.bank + 1) % 3 IN Sel(b, 0, banks[b][0])

\* IndexAdvance without line 106, the refresh of currentOsc
IndexAdvance_stale(s) ==
   LET i == (s.idx + 1) % bankSizes[s.bank] IN Sel(s.bank, i, s.osc)

\* the body of if (PulseIn2RisingEdge()) in ProcessSample
IndexAdvance(s) ==
   LET i == (s.idx + 1) % bankSizes[s.bank] IN Sel(s.bank, i, banks[s.bank][i])

\* CycleEvent on the level of the switch alone
CycleEvent_level(changed, swv) == swv = "Down"

\* SwitchChanged() && SwitchVal() == Down
CycleEvent(changed, swv) == changed /\ swv = "Down"

\* SwitchChanged() of ComputerCard: the position differs from the last sample's
SwitchChanged(swv, before) == swv # before

\* PulseIn1RisingEdge(), PulseIn2RisingEdge() of ComputerCard: high now, low at
\* the last sample
RisingEdge(level, before) == level /\ ~before

\* WT::knobChanged(prev, curr)
knobChanged(prev, curr) == (curr - prev > 4) \/ (prev - curr > 4)

\* the guard of a modulation channel after the tick's switch and knob checks
GuardAfter(guard, changed, moved) ==
   IF moved THEN FALSE ELSE IF changed THEN TRUE ELSE guard

\* one channel's filter update : filter += ((sample - filter) * FILTER_COEF) >> 16
FILTER_COEF == 57344

\* FilterUpdate with the product shifted by 15
FilterUpdate_shift15(filter, sample) ==
   filter + (((sample - filter) * FILTER_COEF) \div 32768)

FilterUpdate(filter, sample) == filter + (((sample - filter) * FILTER_COEF) \div 65536)

\* currentOsc->compute(ph, mod1, mod2, out), with the rotation phases rots of
\* the shapes; yields [out, reads, rots]
Compute(osc, ph, mod1, mod2, rots) ==
   IF osc \in Rotating
   THEN The({ [out |-> r.out, reads |-> r.reads,
               rots |-> [rots EXCEPT ![osc] = r.ph_rot]] :
              r \in { CASE osc = "yinyang"  -> YinYang_compute(ph, mod1, mod2, rots[osc])
                        [] osc = "polycube" -> PolyCube_compute(ph, mod1, mod2, rots[osc])
                        [] osc = "polycone" -> PolyCone_compute(ph, mod1, mod2, rots[osc])
                        [] osc = "polyico"  -> PolyICO_compute(ph, mod1, mod2, rots[osc]) } })
   ELSE The({ [out |-> r.out, reads |-> r.reads, rots |-> rots] :
              r \in { CASE osc = "yinyang_c" -> YinYangCalligraphy_compute(ph, mod1, mod2)
                        [] osc = "ribbon"    -> RibbonWC_compute(ph, mod1, mod2)
                        [] osc = "outline"   -> OutlineWC_compute(ph, mod1, mod2) } })

\* the index into FREQ_INC_LUT_EXP : freq > 4095 ? 4095 : (freq < 0 ? 0 : freq)
FreqIndex(freq) == IF freq > 4095 THEN 4095 ELSE IF freq < 0 THEN 0 ELSE freq

Abs(n) == IF n < 0 THEN -n ELSE n

\* the state of a WT object after its constructor, with no sample processed
Constructed ==
   /\ phase = U32(0, 0)
   /\ filter_L = 0 /\ filter_R = 0
   /\ currentOsc = "yinyang"
   /\ currentBank = BANK_FUNC
   /\ currentOscIndex = 0
   /\ mod1_off = 0 /\ mod2_off = 0
   /\ mod1_att = 2048 /\ mod2_att = 2048
   /\ mod1guard = FALSE /\ mod2guard = FALSE
   /\ knobx_last = 0 /\ knoby_last = 0
   /\ ph_rot = [o \in Rotating |-> U32(0, 0)]
   /\ pulse1 = FALSE /\ pulse2 = FALSE
   /\ out = <<0, 0>>
   /\ reads = {}
   /\ last = [changed |-> FALSE, cycled |-> FALSE, edge1 |-> FALSE, edge2 |-> FALSE,
              held1 |-> FALSE, held2 |-> FALSE,
              bank |-> BANK_FUNC, idx |-> 0, advances |-> 0]
   /\ ref = [set |-> FALSE, kx |-> 0, ky |-> 0, near1 |-> FALSE, near2 |-> FALSE,
             off1 |-> 0, att1 |-> 0, off2 |-> 0, att2 |-> 0]
   /\ fh = [acted |-> FALSE, start |-> <<0, 0>>, prev |-> <<0, 0>>]
   /\ ticks = 0

\* WT::ProcessSample, one tick, for the inputs the card delivers in it: switch
\* position swv, pulse levels p1 and p2, knob readings kx, ky, km, audio inputs
\* a1, a2 and CV input cv
ProcessSample(swv, p1, p2, kx, ky, km, a1, a2, cv) ==
   LET changed == SwitchChanged(swv, switchVal)
       edge1   == RisingEdge(p1, pulse1)
       edge2   == RisingEdge(p2, pulse2)
       cycled  == CycleEvent(changed, swv)
       s0      == Sel(currentBank, currentOscIndex, currentOsc)
       s1      == IF cycled THEN CycleOscillator(s0) ELSE s0
       s2      == IF edge1 THEN BankAdvance(s1) ELSE s1
       s3      == IF edge2 THEN IndexAdvance(s2) ELSE s2
       moved1  == knobChanged(knobx_last, kx)
       moved2  == knobChanged(knoby_last, ky)
       g1      == GuardAfter(mod1guard, changed, moved1)
       g2      == GuardAfter(mod2guard, changed, moved2)
       att1    == IF swv = "Up" /\ ~g1 THEN kx ELSE mod1_att
       att2    == IF swv = "Up" /\ ~g2 THEN ky ELSE mod2_att
       off1    == IF swv # "Up" /\ ~g1 THEN kx ELSE mod1_off
       off2    == IF swv # "Up" /\ ~g2 THEN ky ELSE mod2_off
       mod1    == off1 + ((a1 * att1) \div 4096)
       mod2    == off2 + ((a2 * att2) \div 4096)
       ph      == Add32(phase, FREQ_INC_LUT_EXP(FreqIndex(km + cv)))
   IN  \E r \in {Compute(s3.osc, ph, mod1, mod2, ph_rot)} :
       /\ currentBank' = s3.bank
       /\ currentOscIndex' = s3.idx
       /\ currentOsc' = s3.osc
       /\ mod1guard' = g1 /\ mod2guard' = g2
       /\ knobx_last' = (IF moved1 THEN kx ELSE knobx_last)
       /\ knoby_last' = (IF moved2 THEN ky ELSE knoby_last)
       /\ mod1_att' = att1 /\ mod2_att' = att2
       /\ mod1_off' = off1 /\ mod2_off' = off2
       /\ phase' = ph
       /\ ph_rot' = r.rots
       /\ out' = r.out
       /\ reads' = r.reads
       /\ call' = [osc |-> s3.osc, ph |-> ph, mod1 |-> mod1, mod2 |-> mod2, n |-> call.n + 1]
       /\ filter_L' = FilterUpdate(filter_L, r.out[1])
       /\ filter_R' = FilterUpdate(filter_R, r.out[2])
       /\ fh' = [acted |-> TRUE, start |-> fh.start, prev |-> <<filter_L, filter_R>>]
       /\ switchVal' = swv /\ pulse1' = p1 /\ pulse2' = p2
       /\ last' = [changed |-> changed, cycled |-> cycled,
                   edge1 |-> edge1, edge2 |-> edge2,
                   held1 |-> (p1 /\ pulse1), held2 |-> (p2 /\ pulse2),
                   bank |-> currentBank, idx |-> currentOscIndex,
                   advances |-> IF last.advances < 0 \/ edge1 \/ edge2 THEN -1
                                ELSE IF cycled THEN last.advances + 1
                                ELSE last.advances]
       /\ ref' = IF changed
                 THEN [set |-> TRUE, kx |-> kx, ky |-> ky,
                       near1 |-> TRUE, near2 |-> TRUE,
                       off1 |-> off1, att1 |-> att1, off2 |-> off2, att2 |-> att2]
                 ELSE [ref EXCEPT !.near1 = @ /\ Abs(kx - ref.kx) <= 4,
                                  !.near2 = @ /\ Abs(ky - ref.ky) <= 4]
       /\ ticks' = ticks + 1

\* ------------------------------------------------------------------------
\* The card running: a tick per sample
\* ------------------------------------------------------------------------

\* readings of the inputs a specification holds fixed: the knobs X and Y, the
\* main knob, the two audio inputs and CV input 1
Resting == [kx |-> 2048, ky |-> 2048, km |-> 4000, a1 |-> 1000, a2 |-> -700,
            cv |-> 200]

NoCall == [osc |-> "none", ph |-> U32(0, 0), mod1 |-> 0, mod2 |-> 0, n |-> 0]

\* the card after power-on, the switch in any position
Init ==
   /\ Constructed
   /\ switchVal \in SwitchPositions
   /\ call = NoCall

\* Spec: the switch and the two pulse inputs move freely, the knobs rest
MaxTicks == 4

Tick ==
   /\ ticks < MaxTicks
   /\ \E swv \in SwitchPositions, p1 \in BOOLEAN, p2 \in BOOLEAN :
         ProcessSample(swv, p1, p2, Resting.kx, Resting.ky, Resting.km,
                       Resting.a1, Resting.a2, Resting.cv)

Next == Tick

Spec == Init /\ [][Next]_vars

\* SpecCycle: only the switch moves
MaxCycleTicks == 8

CycleTick ==
   /\ ticks < MaxCycleTicks
   /\ \E swv \in SwitchPositions :
         ProcessSample(swv, FALSE, FALSE, Resting.kx, Resting.ky, Resting.km,
                       Resting.a1, Resting.a2, Resting.cv)

SpecCycle == Init /\ [][CycleTick]_vars

\* SpecGuard: the switch and the two knobs move
MaxGuardTicks == 3

KnobXReadings == {4, 5, 10}
KnobYReadings == {2048, 2050}

GuardTick ==
   /\ ticks < MaxGuardTicks
   /\ \E swv \in SwitchPositions, kx \in KnobXReadings, ky \in KnobYReadings :
         ProcessSample(swv, FALSE, FALSE, kx, ky, Resting.km,
                       Resting.a1, Resting.a2, Resting.cv)

SpecGuard == Init /\ [][GuardTick]_vars

\* ------------------------------------------------------------------------
\* SpecOsc: the shapes alone.  The arguments of compute are drawn at the
\* start; every action is one call of one shape's compute with them.
\* ------------------------------------------------------------------------

MaxCalls == 2

PhaseSamples == {U32(0, 0), U32(12288, 0), U32(32767, 65535), U32(32768, 0),
                 U32(43690, 43691), U32(57344, 1), U32(65535, 65535)}
Mod1Samples == {-1, 0, 1, 2048, 4095, 4096, 4097}
Mod2Samples == {-6144, 0, 2048, 4095, 4096, 5000}

OscInit ==
   /\ Constructed
   /\ switchVal = "Middle"
   /\ \E ph \in PhaseSamples, m1 \in Mod1Samples, m2 \in Mod2Samples :
         call = [osc |-> "none", ph |-> ph, mod1 |-> m1, mod2 |-> m2, n |-> 0]

\* one call of the compute of shape osc with the drawn arguments
CallCompute(osc) ==
   \E r \in {Compute(osc, call.ph, call.mod1, call.mod2, ph_rot)} :
       /\ call.n < MaxCalls
       /\ call' = [call EXCEPT !.osc = osc, !.n = @ + 1]
       /\ ph_rot' = r.rots
       /\ out' = r.out
       /\ reads' = r.reads
       /\ UNCHANGED <<phase, filter_L, filter_R, currentOsc, currentBank,
                      currentOscIndex, mod1_off, mod2_off, mod1_att, mod2_att,
                      mod1guard, mod2guard, knobx_last, knoby_last, switchVal,
                      pulse1, pulse2, last, ref, fh, ticks>>

CallYinYang == CallCompute("yinyang")
CallPolyCube == CallCompute("polycube")
CallPolyCone == CallCompute("polycone")
CallPolyICO == CallCompute("polyico")
CallYinYangCalligraphy == CallCompute("yinyang_c")

OscNext == \/ CallYinYang
           \/ CallPolyCube
           \/ CallPolyCone
           \/ CallPolyICO
           \/ CallYinYangCalligraphy

SpecOsc == OscInit /\ [][OscNext]_vars

\* ------------------------------------------------------------------------
\* SpecFilter: the output conditioner alone.  The filter states and the
\* (constant) input samples are drawn at the start; every action is one
\* update of both channels.
\* ------------------------------------------------------------------------

FilterStarts == {-2048, -7, 0, 1, 2047}
SampleInputs == {-2048, -1, 0, 8, 2047}

FilterInit ==
   /\ phase = U32(0, 0)
   /\ filter_L \in FilterStarts /\ filter_R \in FilterStarts
   /\ currentOsc = "yinyang"
   /\ currentBank = BANK_FUNC
   /\ currentOscIndex = 0
   /\ mod1_off = 0 /\ mod2_off = 0
   /\ mod1_att = 2048 /\ mod2_att = 2048
   /\ mod1guard = FALSE /\ mod2guard = FALSE
   /\ knobx_last = 0 /\ knoby_last = 0
   /\ ph_rot = [o \in Rotating |-> U32(0, 0)]
   /\ switchVal = "Middle"
   /\ pulse1 = FALSE /\ pulse2 = FALSE
   /\ out \in SampleInputs \X SampleInputs
   /\ reads = {}
   /\ call = NoCall
   /\ last = [changed |-> FALSE, cycled |-> FALSE, edge1 |-> FALSE, edge2 |-> FALSE,
              held1 |-> FALSE, held2 |-> FALSE,
              bank |-> BANK_FUNC, idx |-> 0, advances |-> 0]
   /\ ref = [set |-> FALSE, kx |-> 0, ky |-> 0, near1 |-> FALSE, near2 |-> FALSE,
             off1 |-> 0, att1 |-> 0, off2 |-> 0, att2 |-> 0]
   /\ fh = [acted |-> FALSE, start |-> <<filter_L, filter_R>>,
            prev |-> <<filter_L, filter_R>>]
   /\ ticks = 0

\* lines 162-163 of ProcessSample on the samples in out
FilterStep ==
   /\ filter_L' = FilterUpdate(filter_L, out[1])
   /\ filter_R' = FilterUpdate(filter_R, out[2])
   /\ fh' = [acted |-> TRUE, start |-> fh.start, prev |-> <<filter_L, filter_R>>]
   /\ UNCHANGED <<phase, currentOsc, currentBank, currentOscIndex, mod1_off,
                  mod2_off, mod1_att, mod2_att, mod1guard, mod2guard, knobx_last,
                  knoby_last, ph_rot, switchVal, pulse1, pulse2, out, reads,
                  call, last, ref, ticks>>

SpecFilter == FilterInit /\ [][FilterStep]_vars

\* ------------------------------------------------------------------------
\* Claims
\* ------------------------------------------------------------------------

\* the selection before the last tick
Before == <<last.bank, last.idx>>

\* the selection now
Now == <<currentBank, currentOscIndex>>

\* C1: after any ticks, with any of the three selection events in them,
\* currentBank is 0, 1 or 2, currentOscIndex is below the size of the bank,
\* currentOsc is banks[currentBank][currentOscIndex], and the tick's compute
\* was called on that oscillator.
C1_SelectionInRange ==
   /\ currentBank \in 0..2
   /\ currentOscIndex < bankSizes[currentBank]
   /\ currentOsc = banks[currentBank][currentOscIndex]
   /\ (ticks > 0 => call.osc = currentOsc)

\* C1 witness: a tick with all three events in it has gone from (FUNC, 0) to
\* the second oscillator of the WT bank, and compute was called on it.
C1_Witness ==
   /\ last.cycled /\ last.edge1 /\ last.edge2
   /\ Before = <<BANK_FUNC, 0>> /\ Now = <<BANK_WT, 1>>
   /\ currentOsc = "ribbon" /\ call.osc = "ribbon"

\* C2 as stated: four consecutive CycleOscillator events from (FUNC, 0) leave
\* the selection at (MESH, 0).
C2_Original ==
   last.advances = 4 => Now = <<BANK_MESH, 0>>

\* C2 amended: four consecutive CycleOscillator events from (FUNC, 0) leave
\* the selection at (WT, 0); it is the first of them that leaves it at
\* (MESH, 0).
C2_FourAdvances ==
   /\ last.advances = 4 => Now = <<BANK_WT, 0>>
   /\ last.advances = 1 => Now = <<BANK_MESH, 0>>

\* C2 witness: the fourth advance has happened, and nothing else touched the
\* selection.
C2_Witness == last.advances = 4 /\ last.cycled

\* a tick with the bank-advance event alone
BankOnly == last.edge1 /\ ~last.cycled /\ ~last.edge2

\* a tick with the index-advance event alone
IndexOnly == last.edge2 /\ ~last.cycled /\ ~last.edge1

\* C3 as stated: a bank-advance event moves currentBank to the next bank and
\* leaves currentOscIndex unchanged; an index-advance event moves
\* currentOscIndex to the next index of the bank and leaves currentBank
\* unchanged.
C3_Original ==
   /\ BankOnly => Now = <<(last.bank + 1) % 3, last.idx>>
   /\ IndexOnly => Now = <<last.bank, (last.idx + 1) % bankSizes[last.bank]>>

\* C3 amended: a bank-advance event moves currentBank to the next bank and
\* sets currentOscIndex to 0; an index-advance event moves currentOscIndex to
\* the next index of the bank and leaves currentBank unchanged.
C3_BankResetsIndex ==
   /\ BankOnly => Now = <<(last.bank + 1) % 3, 0>>
   /\ IndexOnly => Now = <<last.bank, (last.idx + 1) % bankSizes[last.bank]>>

\* C3 witness: a bank-advance event alone, from a selection whose index was
\* not 0.
C3_Witness == BankOnly /\ last.idx # 0 /\ Now = <<(last.bank + 1) % 3, 0>>

\* C9: CycleOscillator runs only in a tick in which the switch position
\* changed; a tick in which the switch rests and no pulse input rises leaves
\* the selection alone, so a held switch or a held pulse advances nothing;
\* and a tick's cycle event advances the selection once, not twice.
C9_EdgeTriggered ==
   /\ last.cycled => last.changed /\ switchVal = "Down"
   /\ (~last.changed /\ ~last.edge1 /\ ~last.edge2) => Now = Before
   /\ (last.held1 /\ ~last.cycled /\ ~last.edge2) => Now = Before
   /\ (last.held2 /\ ~last.cycled /\ ~last.edge1) => Now = Before
   /\ (last.cycled /\ ~last.edge1 /\ ~last.edge2) =>
         Now = <<CycleOscillator(Sel(last.bank, last.idx, "")).bank,
                 CycleOscillator(Sel(last.bank, last.idx, "")).idx>>

\* C9 witness: in the first tick the switch went Down and both pulse inputs
\* rose, which took the selection from (FUNC, 0) to (WT, 1); in the second
\* tick all three were held, and the selection stayed.
C9_Witness ==
   /\ ticks = 2
   /\ switchVal = "Down" /\ ~last.changed
   /\ last.held1 /\ last.held2
   /\ Before = <<BANK_WT, 1>> /\ Now = Before

\* C10: after a tick in which the switch position changed, the stored values
\* of a channel (mod1_off and mod1_att for knob X, mod2_off and mod2_att for
\* knob Y) keep the values they had after that tick for as long as the
\* channel's knob has read within 4 counts of its reading in that tick.
C10_GuardHolds ==
   ref.set =>
      /\ ref.near1 => (mod1_off = ref.off1 /\ mod1_att = ref.att1)
      /\ ref.near2 => (mod2_off = ref.off2 /\ mod2_att = ref.att2)

\* x lies between a and b, ends included
Between(a, x, b) == (a <= x /\ x <= b) \/ (b <= x /\ x <= a)

\* C8: with the input sample held constant, every filter update leaves the
\* state between its previous value and the input, never past the input; so
\* from state 0 with the input at 2047 the state never decreases and never
\* exceeds 2047.
C8_NoOvershoot ==
   fh.acted =>
      /\ Between(fh.prev[1], filter_L, out[1])
      /\ Between(fh.prev[2], filter_R, out[2])
      /\ (fh.start[1] = 0 /\ out[1] = 2047) =>
            (filter_L >= fh.prev[1] /\ filter_L <= 2047)
      /\ (fh.start[2] = 0 /\ out[2] = 2047) =>
            (filter_R >= fh.prev[2] /\ filter_R <= 2047)

\* C8 witness: the left channel, started at 0 with the input at 2047, has
\* climbed to 2046 and rests there.
C8_Witness ==
   /\ fh.acted /\ fh.start[1] = 0 /\ out[1] = 2047
   /\ fh.prev[1] = 2046 /\ filter_L = 2046

\* the number of points of the path a mesh shape reads
PathCount(osc) == CASE osc = "polycube" -> CUBE_PATH_COUNT
                    [] osc = "polycone" -> CONE_PATH_COUNT
                    [] osc = "polyico"  -> ICOSPHERE_PATH_COUNT
                    [] OTHER -> 0

\* C6: every table entry a compute call reads lies inside its table: the
\* sine table at 0..511, a wavetable at 0..1023, a path at 0..path_count-1.
C6_ReadsInBounds ==
   \A r \in reads :
      /\ r[1] = "SINE" => r[2] \in 0..511
      /\ r[1] = "WT" => r[2] \in 0..1023
      /\ r[1] = "PATH" => r[2] \in 0..(PathCount(call.osc) - 1)

\* C6 witness: a call of PolyCube::compute on the last segment of its path
\* whose sine lookup reads the last entry of the sine table and wraps to the
\* first.
C6_Witness ==
   /\ call.osc = "polycube"
   /\ <<"PATH", CUBE_PATH_COUNT - 2>> \in reads
   /\ <<"PATH", CUBE_PATH_COUNT - 1>> \in reads
   /\ <<"SINE", 511>> \in reads /\ <<"SINE", 0>> \in reads

\* the output of the wavetable shape were table T read alone, at the fixed
\* gain 6/8, for the arguments of the last call
C4_TableAlone(T) ==
   LET phs == MulHi32(call.ph, grow_factor(call.mod1))
   IN  <<((lookup1024(phs, T.left) * 65536) * 6) \div 524288,
         ((-(lookup1024(phs, T.right) * 65536)) * 6) \div 524288>>

\* C4: YinYangCalligraphy::compute with mod2 = 0 writes the YIN lookup alone,
\* and with mod2 at 4096 or above the YANG lookup alone, each at gain 6/8.
C4_MorphEnds ==
   call.osc = "yinyang_c" =>
      /\ call.mod2 = 0 => out = C4_TableAlone(YIN_TABLE)
      /\ call.mod2 >= 4096 => out = C4_TableAlone(YANG_TABLE)

\* C5: mod1 is clamped before it is scaled: a call with mod1 below 0 uses the
\* grow factor of 0, a call with mod1 above 4096 that of 4096, the grow
\* factor of a call is at least that of every smaller mod1, and a call with
\* mod1 at the ceiling 4096 uses the largest grow factor and gets the largest
\* scaled phase.
C5_GrowClamped ==
   call.n > 0 =>
      LET g == grow_factor(call.mod1)
      IN  /\ call.mod1 < 0 => g = grow_factor(0)
          /\ call.mod1 > 4096 => g = grow_factor(4096)
          /\ \A m \in Mod1Samples : m <= call.mod1 => Leq32(grow_factor(m), g)
          /\ call.mod1 = 4096 =>
                \A m \in Mod1Samples :
                   Leq32(MulHi32(call.ph, grow_factor(m)), MulHi32(call.ph, g))

\* C7: for mod1 and mod2 in [0, 4096], any phase and any rotation phase
\* reached, compute of every shape writes out[0] and out[1] within
\* [-2048, 2047].
C7_OutputInRange ==
   (call.n > 0 /\ call.mod1 \in 0..4096 /\ call.mod2 \in 0..4096) =>
      (out[1] \in -2048..2047 /\ out[2] \in -2048..2047)

====
